---- MODULE Spec2Model ----
(***************************************************************************)
(* A model of oop_lecture.py: the toy classes of the lecture (Dog,         *)
(* BankAccount, Animal/Cat, Shape/Circle, Book, Vehicle/Car/               *)
(* ElectricScooter), the function print_vehicle_report and the module's    *)
(* top-level demonstration statements.                                     *)
(*                                                                         *)
(* The classes share no state, so a behaviour follows one subject: the     *)
(* variable `subject` says which object (or the script itself) the         *)
(* behaviour exercises; the other objects keep their constructed values.   *)
(*                                                                         *)
(* Strings that are only formatted are TLA+ strings; strings that are      *)
(* parsed or case-converted are sequences of one-character strings.        *)
(* Floating-point battery levels are kept in tenths of a percent, so       *)
(* `distance * 0.1` is `distance` tenths.                                  *)
(***************************************************************************)
EXTENDS Integers, Sequences, FiniteSets, TLC

VARIABLES
    subject,    \* what this behaviour exercises
    acct,       \* a BankAccount instance
    vehicles,   \* a list of three vehicles, one of each variant
    shape,      \* the instance the last from_description returned
    input,      \* the class and the string from_string is to be called with
    call,       \* the most recent call: its name and its arguments
    ret,        \* what that call returned (None when it raised)
    raised,     \* the exception that call raised (None when it returned)
    stdout,     \* the lines printed since the current call or script began
    report,     \* the loop of a running print_vehicle_report
    script      \* the position of the module's top-level statements

vars == <<subject, acct, vehicles, shape, input, call, ret, raised, stdout,
          report, script>>

(***************************************************************************)
(* Bounds of the model.                                                    *)
(***************************************************************************)
MaxBalance   == 4    \* deposits are explored while the balance stays <= this
MaxAmount    == 2    \* deposit amounts range over -MaxAmount..MaxAmount
MaxMileage   == 2    \* drives are explored while the mileage stays <= this
MaxDistance  == 1    \* drive distances range over -1..MaxDistance
MaxRecharge  == 1    \* a negative drive is explored while battery <= this (tenths)
MaxLen       == 5    \* longest enumerated input string of from_string
MaxDescLen   == 2    \* longest enumerated input string of from_description
MaxReportLen == 3    \* longest list handed to print_vehicle_report

Amounts      == (-MaxAmount)..MaxAmount
Distances    == (-1)..MaxDistance
InitBalances == {-1, 0, 1}
InitBattery  == {0, 1, 200}          \* 0 %, 0.1 % and 20 %, in tenths

None == "None"

(***************************************************************************)
(* The class table: the base of every class statement and the methods its  *)
(* body defines.  The name Circle is bound twice in the file (line 78 and  *)
(* line 114); the first binding is called Circle_pi here, the second,      *)
(* which is the one visible once the module is loaded, Circle.             *)
(***************************************************************************)
Classes == {"Dog", "BankAccount", "Animal", "Cat", "Circle_pi", "Shape",
            "Circle", "Book", "Vehicle", "Car", "ElectricScooter"}

Base == [c \in Classes |->
           CASE c = "Cat"             -> "Animal"
             [] c = "Circle"          -> "Shape"
             [] c = "Car"             -> "Vehicle"
             [] c = "ElectricScooter" -> "Vehicle"
             [] OTHER                 -> "object"]

Methods == [c \in Classes |->
           CASE c = "Dog"             -> {"__init__", "bark"}
             [] c = "BankAccount"     -> {"__init__", "deposit", "get_balance"}
             [] c = "Animal"          -> {"__init__", "speak"}
             [] c = "Cat"             -> {"speak"}
             [] c = "Circle_pi"       -> {"__init__", "area", "from_diameter",
                                          "unit_circle"}
             [] c = "Shape"           -> {"__init__", "from_description",
                                          "describe"}
             [] c = "Circle"          -> {"__init__", "describe"}
             [] c = "Book"            -> {"__init__", "__str__"}
             [] c = "Vehicle"         -> {"__init__", "drive", "get_info",
                                          "__str__", "from_string"}
             [] c = "Car"             -> {"__init__", "get_info"}
             [] c = "ElectricScooter" -> {"__init__", "drive", "get_info",
                                          "is_charging_required"}]

\* Attribute lookup along the inheritance chain: the class whose body
\* defines method m for an instance of class c, or AttributeError.
RECURSIVE Lookup(_, _)
Lookup(c, m) ==
    IF c = "object" THEN "AttributeError"
    ELSE IF m \in Methods[c] THEN c
    ELSE Lookup(Base[c], m)

\* Number of positional parameters of the __init__ a class resolves to
\* (self excluded).
InitArity(c) ==
    LET d == Lookup(c, "__init__")
    IN  CASE d = "Dog"             -> 2
          [] d = "BankAccount"     -> 2
          [] d = "Animal"          -> 1
          [] d = "Circle_pi"       -> 1
          [] d = "Shape"           -> 1
          [] d = "Circle"          -> 1
          [] d = "Book"            -> 2
          [] d = "Vehicle"         -> 3
          [] d = "Car"             -> 4
          [] d = "ElectricScooter" -> 4

(***************************************************************************)
(* Values.  A Python str is a sequence of one-character strings; Text      *)
(* turns it into the TLA+ string that is printed.  A number is an int or a *)
(* float; a float is kept in tenths.                                       *)
(***************************************************************************)
RECURSIVE Text(_)
Text(s) == IF s = <<>> THEN "" ELSE Head(s) \o Text(Tail(s))

IntNum(n)   == [tenths |-> 10 * n, float |-> FALSE]
FloatNum(t) == [tenths |-> t, float |-> TRUE]

\* str() of a number, as an f-string renders it: 85 is "85", 75.0 is "75.0".
NumStr(x) ==
    LET a == IF x.tenths < 0 THEN -x.tenths ELSE x.tenths
        sign == IF x.tenths < 0 THEN "-" ELSE ""
    IN  IF x.float
        THEN sign \o ToString(a \div 10) \o "." \o ToString(a % 10)
        ELSE sign \o ToString(a \div 10)

\* A new instance of class c before its __init__ has run.
New(c) == [cls |-> c]

(***************************************************************************)
(* Section 3: Dog.                                                         *)
(***************************************************************************)
Dog_init(self, name, breed) == self @@ [name |-> name, breed |-> breed]

Dog_bark(self) == self.name \o " says Woof!"

(***************************************************************************)
(* Section 4: BankAccount.                                                 *)
(***************************************************************************)
\* The private attribute __balance is the field balance.
BankAccount_init(self, owner, balance) ==
    self @@ [owner |-> owner, balance |-> balance]

\* A deposit that lacks the test `amount > 0`.
BankAccount_deposit_unguarded(self, amount) ==
    [self EXCEPT !.balance = self.balance + amount]

BankAccount_deposit(self, amount) ==
    IF amount > 0
    THEN [self EXCEPT !.balance = self.balance + amount]
    ELSE self

BankAccount_get_balance(self) == self.balance

(***************************************************************************)
(* Section 5: Animal and Cat.                                              *)
(***************************************************************************)
Animal_init(self, name) == self @@ [name |-> name]

Animal_speak(self) == self.name \o " makes a sound"

Cat_speak(self) == self.name \o " says Meow!"

\* obj.speak(): the result, or AttributeError when no class of the chain
\* defines speak.
CallSpeak(obj) ==
    LET d == Lookup(obj.cls, "speak")
    IN  CASE d = "Animal" -> [raised |-> None, value |-> Animal_speak(obj)]
          [] d = "Cat"    -> [raised |-> None, value |-> Cat_speak(obj)]
          [] OTHER        -> [raised |-> "AttributeError", value |-> None]

(***************************************************************************)
(* Section 7: the first Circle (line 78), Shape and the second Circle.     *)
(***************************************************************************)
LowerCase == <<"a", "b", "c", "d", "e", "f", "g", "h", "i", "j", "k", "l", "m",
               "n", "o", "p", "q", "r", "s", "t", "u", "v", "w", "x", "y", "z">>
UpperCase == <<"A", "B", "C", "D", "E", "F", "G", "H", "I", "J", "K", "L", "M",
               "N", "O", "P", "Q", "R", "S", "T", "U", "V", "W", "X", "Y", "Z">>

\* str.upper(): every lower-case letter becomes its capital, the other
\* characters stay.
Upper(s) ==
    [i \in 1..Len(s) |->
        IF \E k \in 1..26 : LowerCase[k] = s[i]
        THEN UpperCase[CHOOSE k \in 1..26 : LowerCase[k] = s[i]]
        ELSE s[i]]

Pi10000 == 31416      \* Circle.pi = 3.1416, in ten-thousandths

Circle_pi_init(self, radius) == self @@ [radius |-> radius]

\* Circle.pi * radius * radius, the radius a float in tenths: the area in
\* millionths.
Circle_pi_area(self) == Pi10000 * self.radius.tenths * self.radius.tenths

Shape_init(self, name) == self @@ [name |-> name]

Shape_describe(self) == "This is a shape named " \o Text(self.name)

Circle_init(self, name) == Shape_init(self, name)

Circle_describe(self) == "A circle named " \o Text(self.name)

(***************************************************************************)
(* Section 8: Book.                                                        *)
(***************************************************************************)
Book_init(self, title, author) == self @@ [title |-> title, author |-> author]

Book_str(self) == self.title \o " by " \o self.author

(***************************************************************************)
(* Section 10: Vehicle, Car and ElectricScooter.                           *)
(***************************************************************************)
Vehicle_init(self, make, model, year) ==
    self @@ [make |-> make, model |-> model, year |-> year, _mileage |-> 0]

\* A drive that lacks the test `distance > 0`.
Vehicle_drive_unguarded(self, distance) ==
    [self EXCEPT !._mileage = self._mileage + distance]

Vehicle_drive(self, distance) ==
    IF distance > 0
    THEN [self EXCEPT !._mileage = self._mileage + distance]
    ELSE self

Vehicle_get_info(self) ==
    ToString(self.year) \o " " \o Text(self.make) \o " " \o Text(self.model)
        \o ", Mileage: " \o ToString(self._mileage)

Car_init(self, make, model, year, fuel_capacity) ==
    Vehicle_init(self, make, model, year) @@ [fuel_capacity |-> fuel_capacity]

Car_get_info(self) ==
    Vehicle_get_info(self) \o ", Fuel Capacity: " \o ToString(self.fuel_capacity)

ElectricScooter_init(self, make, model, year, battery_percentage) ==
    Vehicle_init(self, make, model, year)
        @@ [battery_percentage |-> battery_percentage]

\* A scooter drive that lacks the clamp at 0.
ElectricScooter_drive_unclamped(self, distance) ==
    LET driven == Vehicle_drive(self, distance)
    IN  [driven EXCEPT !.battery_percentage =
                           FloatNum(driven.battery_percentage.tenths - distance)]

\* battery_percentage -= distance * 0.1 yields a float; the clamp assigns
\* the int 0.
ElectricScooter_drive(self, distance) ==
    LET driven  == Vehicle_drive(self, distance)
        reduced == FloatNum(driven.battery_percentage.tenths - distance)
    IN  IF reduced.tenths < 0
        THEN [driven EXCEPT !.battery_percentage = IntNum(0)]
        ELSE [driven EXCEPT !.battery_percentage = reduced]

ElectricScooter_get_info(self) ==
    Vehicle_get_info(self) \o ", Battery: " \o NumStr(self.battery_percentage)
        \o "%"

ChargeThreshold == 20

\* The names bound at module level once the file has been loaded.  The
\* body of the static method is_charging_required reads the name self,
\* which is neither a parameter nor one of these.
ModuleGlobals == Classes \cup {"dog1", "acct", "cat", "animals", "animal", "c",
                               "shape", "circle", "book",
                               "print_vehicle_report", "vehicles", "v"}

ElectricScooter_is_charging_required(receiver) ==
    IF "self" \in ModuleGlobals
    THEN [raised |-> None,
          value  |-> receiver.battery_percentage.tenths < 10 * ChargeThreshold]
    ELSE [raised |-> "NameError", value |-> None]

\* cls(*args): the arguments are bound to the parameters of the __init__
\* the class resolves to; a wrong number of them is a TypeError.
Construct(c, args) ==
    LET d == Lookup(c, "__init__")
    IN  IF Len(args) # InitArity(c)
        THEN [raised |-> "TypeError", value |-> None]
        ELSE [raised |-> None,
              value  |->
                CASE d = "Dog"         -> Dog_init(New(c), args[1], args[2])
                  [] d = "BankAccount" -> BankAccount_init(New(c), args[1], args[2])
                  [] d = "Animal"      -> Animal_init(New(c), args[1])
                  [] d = "Circle_pi"   -> Circle_pi_init(New(c), args[1])
                  [] d = "Shape"       -> Shape_init(New(c), args[1])
                  [] d = "Circle"      -> Circle_init(New(c), args[1])
                  [] d = "Book"        -> Book_init(New(c), args[1], args[2])
                  [] d = "Vehicle"     ->
                        Vehicle_init(New(c), args[1], args[2], args[3])
                  [] d = "Car"         ->
                        Car_init(New(c), args[1], args[2], args[3], args[4])
                  [] d = "ElectricScooter" ->
                        ElectricScooter_init(New(c), args[1], args[2], args[3],
                                             args[4])]

\* cls(diameter / 2): true division yields a float.
Circle_pi_from_diameter(c, diameter) == Construct(c, <<FloatNum(5 * diameter)>>)

\* A factory that names the base class instead of cls.
Shape_from_description_base(c, desc) == Construct("Shape", <<Upper(desc)>>)

Shape_from_description(c, desc) == Construct(c, <<Upper(desc)>>)

\* obj.drive(distance), dispatched on the class of obj.
CallDrive(obj, distance) ==
    LET d == Lookup(obj.cls, "drive")
    IN  CASE d = "Vehicle"         ->
                [raised |-> None, value |-> Vehicle_drive(obj, distance)]
          [] d = "ElectricScooter" ->
                [raised |-> None, value |-> ElectricScooter_drive(obj, distance)]
          [] OTHER -> [raised |-> "AttributeError", value |-> obj]

\* obj.get_info(), dispatched on the class of obj.
CallGetInfo(obj) ==
    LET d == Lookup(obj.cls, "get_info")
    IN  CASE d = "Vehicle" -> [raised |-> None, value |-> Vehicle_get_info(obj)]
          [] d = "Car"     -> [raised |-> None, value |-> Car_get_info(obj)]
          [] d = "ElectricScooter" ->
                [raised |-> None, value |-> ElectricScooter_get_info(obj)]
          [] OTHER -> [raised |-> "AttributeError", value |-> None]

\* obj.describe(), dispatched on the class of obj.
CallDescribe(obj) ==
    LET d == Lookup(obj.cls, "describe")
    IN  CASE d = "Shape"  -> [raised |-> None, value |-> Shape_describe(obj)]
          [] d = "Circle" -> [raised |-> None, value |-> Circle_describe(obj)]
          [] OTHER -> [raised |-> "AttributeError", value |-> None]

(***************************************************************************)
(* Vehicle.from_string: str.split('-'), the unpacking into three names and *)
(* int().                                                                  *)
(***************************************************************************)
\* s.split('-'): the pieces between the dashes; a string without a dash
\* (the empty one included) is a single piece.
RECURSIVE Split(_)
Split(s) ==
    IF \A i \in 1..Len(s) : s[i] # "-"
    THEN <<s>>
    ELSE LET i == CHOOSE i \in 1..Len(s) :
                     s[i] = "-" /\ \A j \in 1..(i - 1) : s[j] # "-"
         IN  <<SubSeq(s, 1, i - 1)>> \o Split(SubSeq(s, i + 1, Len(s)))

Digits == <<"0", "1", "2", "3", "4", "5", "6", "7", "8", "9">>
IsDigit(ch) == \E k \in 1..10 : Digits[k] = ch
DigitVal(ch) == (CHOOSE k \in 1..10 : Digits[k] = ch) - 1

\* str.strip() for the blank.
RECURSIVE LStrip(_)
LStrip(s) == IF s # <<>> /\ Head(s) = " " THEN LStrip(Tail(s)) ELSE s
RECURSIVE RStrip(_)
RStrip(s) ==
    IF s # <<>> /\ s[Len(s)] = " " THEN RStrip(SubSeq(s, 1, Len(s) - 1)) ELSE s
Strip(s) == RStrip(LStrip(s))

\* The literal without blanks around it and without its sign.
Unsigned(s) ==
    LET t == Strip(s)
    IN  IF t # <<>> /\ Head(t) \in {"+", "-"} THEN Tail(t) ELSE t

\* int(s) accepts blanks around an optional sign and digits, in which
\* single underscores may separate digits.
IntParsable(s) ==
    LET u == Unsigned(s)
    IN  /\ u # <<>>
        /\ \A i \in 1..Len(u) : IsDigit(u[i]) \/ u[i] = "_"
        /\ IsDigit(u[1]) /\ IsDigit(u[Len(u)])
        /\ \A i \in 1..(Len(u) - 1) : ~(u[i] = "_" /\ u[i + 1] = "_")

RECURSIVE DecimalValue(_)
DecimalValue(u) ==
    IF u = <<>> THEN 0
    ELSE IF u[Len(u)] = "_" THEN DecimalValue(SubSeq(u, 1, Len(u) - 1))
    ELSE 10 * DecimalValue(SubSeq(u, 1, Len(u) - 1)) + DigitVal(u[Len(u)])

IntValue(s) ==
    LET t == Strip(s)
    IN  IF t # <<>> /\ Head(t) = "-"
        THEN -DecimalValue(Unsigned(s))
        ELSE DecimalValue(Unsigned(s))

\* A from_string that splits with string.split('-')[:3] and so lets
\* surplus fields pass.
Vehicle_from_string_lenient(c, string) ==
    LET fields == Split(string)
    IN  IF Len(fields) < 3
        THEN [raised |-> "ValueError", value |-> None]
        ELSE IF ~IntParsable(fields[3])
        THEN [raised |-> "ValueError", value |-> None]
        ELSE Construct(c, <<fields[1], fields[2], IntValue(fields[3])>>)

\* make, model, year = string.split('-') raises ValueError unless there
\* are exactly three pieces; int(year) raises ValueError; then cls(...).
Vehicle_from_string(c, string) ==
    LET fields == Split(string)
    IN  IF Len(fields) # 3
        THEN [raised |-> "ValueError", value |-> None]
        ELSE IF ~IntParsable(fields[3])
        THEN [raised |-> "ValueError", value |-> None]
        ELSE Construct(c, <<fields[1], fields[2], IntValue(fields[3])>>)

(***************************************************************************)
(* Section 10: print_vehicle_report.  The loop is one step per element.    *)
(* The list holds references: the numbers 1..3 are the elements of         *)
(* `vehicles`, 4 is an object of a class without get_info.                 *)
(***************************************************************************)
Stray == Dog_init(New("Dog"), "Buddy", "Golden Retriever")

Deref(k) == IF k \in 1..3 THEN vehicles[k] ELSE Stray

\* A loop that catches the failure of an element and goes on to the next.
ReportIteration_isolating(rep, out) ==
    IF rep.i > Len(rep.items)
    THEN [report |-> [rep EXCEPT !.pc = "returned"], stdout |-> out,
          raised |-> None]
    ELSE LET r == CallGetInfo(Deref(rep.items[rep.i]))
         IN  [report |-> [rep EXCEPT !.i = rep.i + 1],
              stdout |-> IF r.raised # None THEN out ELSE Append(out, r.value),
              raised |-> None]

\* One pass of `for vehicle in vehicles: print(vehicle.get_info())`: the
\* loop ends after the last element; an exception leaves the function.
ReportIteration(rep, out) ==
    IF rep.i > Len(rep.items)
    THEN [report |-> [rep EXCEPT !.pc = "returned"], stdout |-> out,
          raised |-> None]
    ELSE LET r == CallGetInfo(Deref(rep.items[rep.i]))
         IN  IF r.raised # None
             THEN [report |-> [rep EXCEPT !.pc = "raised"], stdout |-> out,
                   raised |-> r.raised]
             ELSE [report |-> [rep EXCEPT !.i = rep.i + 1],
                   stdout |-> Append(out, r.value), raised |-> None]

(***************************************************************************)
(* Inputs.                                                                 *)
(***************************************************************************)
SeqsUpTo(S, n) == UNION {[1..k -> S] : k \in 0..n}

Alphabet     == {"a", "-", "1", "+", " ", "_"}
HondaCivic   == <<"H", "o", "n", "d", "a", "-", "C", "i", "v", "i", "c", "-",
                  "2", "0", "1", "8">>
OnlyOneField == <<"O", "n", "l", "y", "O", "n", "e", "F", "i", "e", "l", "d">>
Strings      == SeqsUpTo(Alphabet, MaxLen) \cup {HondaCivic, OnlyOneField}

DescAlphabet == {"a", "z", "A", "1"}
Hexagon      == <<"h", "e", "x", "a", "g", "o", "n">>
Donut        == <<"d", "o", "n", "u", "t">>
Descriptions == SeqsUpTo(DescAlphabet, MaxDescLen) \cup {Hexagon, Donut}

Toyota  == <<"T", "o", "y", "o", "t", "a">>
Corolla == <<"C", "o", "r", "o", "l", "l", "a">>
Xiaomi  == <<"X", "i", "a", "o", "m", "i">>
M365    == <<"M", "3", "6", "5">>
Honda   == <<"H", "o", "n", "d", "a">>
Civic   == <<"C", "i", "v", "i", "c">>

\* The list of lines 230-234 with the given battery percentage.
SampleVehicles(battery) ==
    <<Construct("Car", <<Toyota, Corolla, 2020, 50>>).value,
      Construct("ElectricScooter", <<Xiaomi, M365, 2022, battery>>).value,
      Vehicle_from_string("Vehicle", HondaCivic).value>>

Batteries == {IF t % 10 = 0 THEN IntNum(t \div 10) ELSE FloatNum(t) :
                 t \in InitBattery}

VehicleClasses == {"Vehicle", "Car", "ElectricScooter"}

Subjects == {"BankAccount", "vehicles", "Shape", "from_string", "script"}

NoCall == [op |-> "none", args |-> <<>>]

\* No print_vehicle_report is running: its frame exists only during a call.
NoReport == [pc |-> "idle", items |-> <<>>, i |-> 1]

(***************************************************************************)
(* The module's top-level statements, one step per demonstration; the for  *)
(* loop of lines 71-72 is one step per element.  An exception ends the     *)
(* script.  The objects a demonstration binds are local to its step.       *)
(***************************************************************************)
ScriptOrder == <<"dog", "bank", "cat", "animals", "circle", "shape", "book",
                 "vehicles", "done">>

NextDemo(pc) == ScriptOrder[(CHOOSE k \in 1..Len(ScriptOrder) :
                                ScriptOrder[k] = pc) + 1]

\* animals = [Dog("Rex", "Bulldog"), Cat("Whiskers")]
Animals == <<Construct("Dog", <<"Rex", "Bulldog">>).value,
             Construct("Cat", <<"Whiskers">>).value>>

\* repr of a float given in millionths, for the values the script prints.
MillionthsStr(m) ==
    LET frac == (m % 1000000) \div 10000
    IN  ToString(m \div 1000000) \o "." \o ToString(frac)

\* The lines a step prints, the exception it raises and where the script
\* goes next.
ScriptExec(sc) ==
    LET ok(lines) == [out |-> lines, raised |-> None,
                      next |-> [pc |-> NextDemo(sc.pc), i |-> 1]]
    IN  CASE sc.pc = "dog" ->
               ok(<<Dog_bark(Construct("Dog",
                                       <<"Buddy", "Golden Retriever">>).value)>>)
          [] sc.pc = "bank" ->
               LET a == Construct("BankAccount", <<"Alice", 1000>>).value
               IN  ok(<<ToString(BankAccount_get_balance(
                                     BankAccount_deposit(a, 500)))>>)
          [] sc.pc = "cat" ->
               ok(<<CallSpeak(Construct("Cat", <<"Whiskers">>).value).value>>)
          [] sc.pc = "animals" ->
               LET r == CallSpeak(Animals[sc.i])
               IN  IF r.raised # None
                   THEN [out |-> <<>>, raised |-> r.raised,
                         next |-> [sc EXCEPT !.pc = "raised"]]
                   ELSE IF sc.i < Len(Animals)
                   THEN [out |-> <<r.value>>, raised |-> None,
                         next |-> [sc EXCEPT !.i = sc.i + 1]]
                   ELSE ok(<<r.value>>)
          [] sc.pc = "circle" ->
               ok(<<MillionthsStr(Circle_pi_area(
                        Circle_pi_from_diameter("Circle_pi", 10).value))>>)
          [] sc.pc = "shape" -> ok(<<>>)
          [] sc.pc = "book" ->
               ok(<<Book_str(Construct("Book",
                                       <<"1984", "George Orwell">>).value)>>)
          [] sc.pc = "vehicles" ->
               LET vs == SampleVehicles(IntNum(85))
               IN  ok([k \in 1..3 |->
                         CallGetInfo(CallDrive(vs[k], 100).value).value])

(***************************************************************************)
(* The state after construction.                                           *)
(***************************************************************************)
Init ==
    /\ subject \in Subjects
    /\ acct \in {Construct("BankAccount", <<"Alice", b>>).value :
                    b \in IF subject = "BankAccount" THEN InitBalances ELSE {0}}
    /\ vehicles \in {SampleVehicles(b) :
                        b \in IF subject = "vehicles" THEN Batteries
                              ELSE {IntNum(85)}}
    /\ shape = Shape_from_description("Shape", Hexagon).value
    /\ input \in IF subject = "from_string"
                 THEN VehicleClasses \X Strings
                 ELSE {<<"Vehicle", HondaCivic>>}
    /\ call = NoCall
    /\ ret = None
    /\ raised = None
    /\ stdout = <<>>
    /\ report = NoReport
    /\ script = [pc |-> "dog", i |-> 1]

(***************************************************************************)
(* The operations.                                                         *)
(***************************************************************************)
\* acct.deposit(amount)
Deposit(amount) ==
    /\ subject = "BankAccount"
    /\ acct.balance + amount <= MaxBalance
    /\ acct' = BankAccount_deposit(acct, amount)
    /\ call' = [op |-> "deposit", args |-> <<amount>>]
    /\ ret' = None
    /\ raised' = None
    /\ UNCHANGED <<subject, input, vehicles, shape, stdout, report, script>>

\* acct.get_balance()
GetBalance ==
    /\ subject = "BankAccount"
    /\ call' = [op |-> "get_balance", args |-> <<>>]
    /\ ret' = BankAccount_get_balance(acct)
    /\ raised' = None
    /\ UNCHANGED <<subject, input, acct, vehicles, shape, stdout, report, script>>

\* vehicles[k].drive(distance)
Drive(k, distance) ==
    /\ subject = "vehicles"
    /\ report.pc # "running"
    /\ vehicles[k]._mileage + distance <= MaxMileage
    /\ (vehicles[k].cls = "ElectricScooter" /\ distance < 0) =>
           vehicles[k].battery_percentage.tenths - distance <= MaxRecharge
    /\ LET r == CallDrive(vehicles[k], distance)
       IN  /\ vehicles' = [vehicles EXCEPT ![k] = r.value]
           /\ raised' = r.raised
    /\ call' = [op |-> "drive", args |-> <<k, distance>>]
    /\ ret' = None
    /\ stdout' = <<>>
    /\ report' = NoReport
    /\ UNCHANGED <<subject, input, acct, shape, script>>

\* vehicles[k].is_charging_required() on the scooter of the list
IsChargingRequired(k) ==
    /\ subject = "vehicles"
    /\ report.pc # "running"
    /\ vehicles[k].cls = "ElectricScooter"
    /\ LET r == ElectricScooter_is_charging_required(vehicles[k])
       IN  /\ ret' = r.value
           /\ raised' = r.raised
    /\ call' = [op |-> "is_charging_required", args |-> <<k>>]
    /\ stdout' = <<>>
    /\ report' = NoReport
    /\ UNCHANGED <<subject, input, acct, vehicles, shape, script>>

\* print_vehicle_report(items) is entered
ReportCall(items) ==
    /\ subject = "vehicles"
    /\ report.pc # "running"
    /\ report' = [pc |-> "running", items |-> items, i |-> 1]
    /\ stdout' = <<>>
    /\ call' = [op |-> "print_vehicle_report", args |-> <<items>>]
    /\ ret' = None
    /\ raised' = None
    /\ UNCHANGED <<subject, input, acct, vehicles, shape, script>>

\* one pass of its loop
ReportStep ==
    /\ subject = "vehicles"
    /\ report.pc = "running"
    /\ LET r == ReportIteration(report, stdout)
       IN  /\ report' = r.report
           /\ stdout' = r.stdout
           /\ raised' = r.raised
    /\ UNCHANGED <<subject, input, acct, vehicles, shape, call, ret, script>>

\* shape = c.from_description(desc) for c the class Shape or Circle
FromDescription(c, desc) ==
    /\ subject = "Shape"
    /\ LET r == Shape_from_description(c, desc)
       IN  /\ raised' = r.raised
           /\ ret' = r.value
           /\ shape' = IF r.raised = None THEN r.value ELSE shape
    /\ call' = [op |-> "from_description", args |-> <<c, desc>>]
    /\ UNCHANGED <<subject, input, acct, vehicles, stdout, report, script>>

\* shape.describe()
Describe ==
    /\ subject = "Shape"
    /\ LET r == CallDescribe(shape)
       IN  /\ raised' = r.raised
           /\ ret' = r.value
    /\ call' = [op |-> "describe", args |-> <<>>]
    /\ UNCHANGED <<subject, input, acct, vehicles, shape, stdout, report, script>>

\* input[1].from_string(input[2]), a pure function of its input, is
\* applied once
FromString ==
    /\ subject = "from_string"
    /\ call = NoCall
    /\ LET r == Vehicle_from_string(input[1], input[2])
       IN  /\ raised' = r.raised
           /\ ret' = r.value
    /\ call' = [op |-> "from_string", args |-> input]
    /\ UNCHANGED <<subject, input, acct, vehicles, shape, stdout, report, script>>

\* the next top-level statement of the module runs
ScriptStep ==
    /\ subject = "script"
    /\ script.pc \notin {"done", "raised"}
    /\ LET r == ScriptExec(script)
       IN  /\ stdout' = stdout \o r.out
           /\ raised' = r.raised
           /\ script' = r.next
    /\ UNCHANGED <<subject, input, acct, vehicles, shape, call, ret, report>>

Next ==
    \/ \E amount \in Amounts : Deposit(amount)
    \/ GetBalance
    \/ \E k \in 1..3, distance \in Distances : Drive(k, distance)
    \/ \E k \in 1..3 : IsChargingRequired(k)
    \/ \E items \in SeqsUpTo(1..4, MaxReportLen) : ReportCall(items)
    \/ ReportStep
    \/ \E c \in {"Shape", "Circle"}, desc \in Descriptions :
          FromDescription(c, desc)
    \/ Describe
    \/ FromString
    \/ ScriptStep

Spec == Init /\ [][Next]_vars

(***************************************************************************)
(* Properties.                                                             *)
(***************************************************************************)
Max(a, b) == IF a >= b THEN a ELSE b

\* C1: every deposit(amount) with amount > 0 raises get_balance() by
\* exactly amount, every deposit with amount <= 0 leaves the account as it
\* was, no deposit raises an error, get_balance() returns the balance
\* without changing it, and the balance never decreases.
C1_DepositContract ==
    [][/\ acct'.balance >= acct.balance
       /\ call'.op = "deposit" =>
            LET amount == call'.args[1]
            IN  /\ raised' = None
                /\ BankAccount_get_balance(acct') =
                       IF amount > 0
                       THEN BankAccount_get_balance(acct) + amount
                       ELSE BankAccount_get_balance(acct)
                /\ acct'.owner = acct.owner
       /\ call'.op = "get_balance" =>
            /\ raised' = None
            /\ ret' = acct.balance
            /\ acct' = acct]_vars

\* A positive deposit has been made and the balance has grown to 3.
C1_Witness ==
    /\ call.op = "deposit"
    /\ call.args[1] > 0
    /\ raised = None
    /\ acct.balance = 3

\* C2: the mileage of each of the three variants starts at 0, never
\* decreases and is never negative, and a drive(distance) with
\* distance > 0 raises the mileage of the driven vehicle by exactly
\* distance and that of no other vehicle.
C2_MileageMonotone ==
    /\ \A k \in 1..3 : vehicles[k]._mileage = 0
    /\ [][/\ \A k \in 1..3 :
                /\ vehicles'[k]._mileage >= vehicles[k]._mileage
                /\ vehicles'[k]._mileage >= 0
          /\ call'.op = "drive" =>
                LET k == call'.args[1]
                    distance == call'.args[2]
                IN  /\ distance > 0 =>
                          vehicles'[k]._mileage = vehicles[k]._mileage + distance
                    /\ \A j \in 1..3 \ {k} :
                          vehicles'[j]._mileage = vehicles[j]._mileage]_vars

\* The scooter has been driven up to mileage 2.
C2_Witness ==
    /\ call.op = "drive"
    /\ call.args[1] = 2
    /\ call.args[2] > 0
    /\ vehicles[2].cls = "ElectricScooter"
    /\ vehicles[2]._mileage = 2

\* C3: after drive(distance) on the scooter, for any distance, its battery
\* in tenths of a percent is max(0, previous battery - distance).
C3_BatteryAfterDrive ==
    [][(call'.op = "drive" /\ vehicles[call'.args[1]].cls = "ElectricScooter")
          => LET k == call'.args[1]
                 distance == call'.args[2]
             IN  vehicles'[k].battery_percentage.tenths =
                    Max(0, vehicles[k].battery_percentage.tenths - distance)]_vars

\* The scooter has been driven 1 unit twice and its battery was clamped to
\* the int 0 (an unclamped result is a float).
C3_Witness ==
    /\ call.op = "drive"
    /\ call.args = <<2, 1>>
    /\ vehicles[2].battery_percentage = IntNum(0)
    /\ vehicles[2]._mileage = 2

\* The fields of two vehicles agree, numbers compared by value.
SameVehicle(v, w) ==
    /\ v.cls = w.cls
    /\ v.make = w.make /\ v.model = w.model /\ v.year = w.year
    /\ v._mileage = w._mileage
    /\ v.cls = "Car" => v.fuel_capacity = w.fuel_capacity
    /\ v.cls = "ElectricScooter" =>
          v.battery_percentage.tenths = w.battery_percentage.tenths

\* C4: drive(distance) with distance <= 0 raises no error and leaves every
\* field of every vehicle, the battery of the scooter included, at its
\* value.
C4_NonPositiveDriveNoOp ==
    [][(call'.op = "drive" /\ call'.args[2] <= 0)
          => /\ raised' = None
             /\ \A k \in 1..3 : SameVehicle(vehicles[k], vehicles'[k])]_vars

\* The capital of a character, stated by position in the alphabet.
IsUpperOf(up, ch) ==
    IF \E k \in 1..26 : LowerCase[k] = ch
    THEN \E k \in 1..26 : LowerCase[k] = ch /\ UpperCase[k] = up
    ELSE up = ch

\* C5: from_description(desc) invoked through Shape or Circle returns an
\* instance of the class it was invoked through whose name is desc in
\* upper case ("hexagon" gives HEXAGON, "donut" gives DONUT), and
\* describe() on the instance answers with the text of its own class.
C5_FactoryVariant ==
    /\ call.op = "from_description" =>
          LET c == call.args[1]
              desc == call.args[2]
          IN  /\ raised = None
              /\ ret = shape
              /\ shape.cls = c
              /\ Len(shape.name) = Len(desc)
              /\ \A i \in 1..Len(desc) : IsUpperOf(shape.name[i], desc[i])
              /\ desc = Hexagon =>
                    shape.name = <<"H", "E", "X", "A", "G", "O", "N">>
              /\ desc = Donut => shape.name = <<"D", "O", "N", "U", "T">>
    /\ call.op = "describe" =>
          /\ raised = None
          /\ shape.cls = "Shape" =>
                ret = "This is a shape named " \o Text(shape.name)
          /\ shape.cls = "Circle" => ret = "A circle named " \o Text(shape.name)

\* Circle.from_description("donut") has returned a Circle named DONUT.
C5_Witness ==
    /\ call.op = "from_description"
    /\ call.args = <<"Circle", Donut>>
    /\ shape.cls = "Circle"
    /\ shape.name = <<"D", "O", "N", "U", "T">>

\* The positions of the dashes of a string.
Dashes(s) == {i \in 1..Len(s) : s[i] = "-"}

\* A string with exactly two dashes whose part after the second dash is
\* an integer literal.
WellFormed(s) ==
    /\ Cardinality(Dashes(s)) = 2
    /\ LET d2 == CHOOSE i \in Dashes(s) : \A j \in Dashes(s) : j <= i
       IN  IntParsable(SubSeq(s, d2 + 1, Len(s)))

\* C6: Vehicle.from_string(s) returns, exactly when s has three
\* dash-separated fields the third of which is an integer literal, a
\* Vehicle whose make is the first field, whose model is the second, whose
\* year is the value of the third and whose mileage is 0; on any other s
\* it raises ValueError and returns nothing.
C6_FromStringParses ==
    (call.op = "from_string" /\ call.args[1] = "Vehicle") =>
        LET s == call.args[2]
        IN  IF WellFormed(s)
            THEN LET d1 == CHOOSE i \in Dashes(s) : \A j \in Dashes(s) : i <= j
                     d2 == CHOOSE i \in Dashes(s) : \A j \in Dashes(s) : j <= i
                 IN  /\ raised = None
                     /\ ret.cls = "Vehicle"
                     /\ ret.make = SubSeq(s, 1, d1 - 1)
                     /\ ret.model = SubSeq(s, d1 + 1, d2 - 1)
                     /\ ret.year = IntValue(SubSeq(s, d2 + 1, Len(s)))
                     /\ ret._mileage = 0
                     /\ DOMAIN ret = {"cls", "make", "model", "year", "_mileage"}
                     /\ s = HondaCivic =>
                           ret.make = Honda /\ ret.model = Civic /\ ret.year = 2018
            ELSE /\ raised = "ValueError"
                 /\ ret = None

\* Vehicle.from_string("Honda-Civic-2018") has returned the 2018 Honda.
C6_Witness ==
    /\ call.op = "from_string"
    /\ call.args = <<"Vehicle", HondaCivic>>
    /\ raised = None
    /\ ret.year = 2018
    /\ ret._mileage = 0

\* C7: from_string invoked through Vehicle, Car or ElectricScooter with a
\* well-formed string returns an instance of the class it was invoked
\* through.
C7_FromStringLateBound ==
    (call.op = "from_string" /\ WellFormed(call.args[2])) =>
        /\ raised = None
        /\ ret.cls = call.args[1]

\* The line get_info() of the element's own class yields.
OwnInfo(obj) ==
    CASE obj.cls = "Vehicle"         -> Vehicle_get_info(obj)
      [] obj.cls = "Car"             -> Car_get_info(obj)
      [] obj.cls = "ElectricScooter" -> ElectricScooter_get_info(obj)

\* get_info() fails on an object whose class is no vehicle class.
InfoFails(obj) == obj.cls \notin VehicleClasses

\* C8: print_vehicle_report prints, in the order of the list, one line per
\* element, the get_info() of the element's own class, and changes no
\* vehicle; when get_info fails on an element, the lines of the elements
\* before it have been printed, the failure reaches the caller and no line
\* of an element after it is printed.
C8_ReportOrder ==
    /\ [](call.op = "print_vehicle_report" =>
            LET items == report.items
                n == Len(stdout)
            IN  /\ items = call.args[1]
                /\ n <= Len(items)
                /\ \A k \in 1..n :
                      /\ ~InfoFails(Deref(items[k]))
                      /\ stdout[k] = OwnInfo(Deref(items[k]))
                /\ report.pc = "running" => n = report.i - 1 /\ raised = None
                /\ report.pc = "returned" => n = Len(items) /\ raised = None
                /\ report.pc = "raised" =>
                      /\ n < Len(items)
                      /\ InfoFails(Deref(items[n + 1]))
                      /\ raised = "AttributeError")
    /\ [][call'.op = "print_vehicle_report" => vehicles' = vehicles]_vars

\* A report of three elements failed on its second one after printing the
\* line of the first.
C8_Witness ==
    /\ call.op = "print_vehicle_report"
    /\ report.pc = "raised"
    /\ report.items = <<2, 4, 1>>
    /\ Len(stdout) = 1
    /\ vehicles[2]._mileage = 1

\* C9: is_charging_required() returns True when the battery of the
\* scooter is below 20 percent and False otherwise.
C9_ChargingRequired ==
    call.op = "is_charging_required" =>
        /\ raised = None
        /\ ret = (vehicles[call.args[1]].battery_percentage.tenths < 200)

\* C10: the loop over [Dog("Rex", "Bulldog"), Cat("Whiskers")] prints
\* "Rex says Woof!" and then "Whiskers says Meow!" without an error, and
\* the script goes on to the demonstrations after it.
C10_PolymorphismDemo ==
    subject = "script" =>
        /\ script.pc # "raised"
        /\ raised = None
        /\ script.pc \in {"circle", "shape", "book", "vehicles", "done"} =>
              /\ Len(stdout) >= 5
              /\ stdout[4] = "Rex says Woof!"
              /\ stdout[5] = "Whiskers says Meow!"

====
